---- MODULE Spec2Model ----
(***************************************************************************)
(* Model of the rustation-libretro core glue (src/src/lib.rs): the BIOS    *)
(* discovery done by load_game (Context::new, find_bios, try_bios) and the *)
(* libretro::Context callbacks (render_frame, get_system_av_info,          *)
(* gl_context_reset, gl_context_destroy).                                  *)
(*                                                                         *)
(* The host is single threaded: one callback runs at a time, so every      *)
(* callback is one action.  What a callback asks of its environment (the   *)
(* disc, the system directory, the directory listing, every read result,   *)
(* the engine's render result) is an input drawn with \E.                  *)
(***************************************************************************)
EXTENDS Integers, Sequences, FiniteSets, TLC

(***************************************************************************)
(* Bounds                                                                  *)
(***************************************************************************)
\* rustation::bios::BIOS_SIZE is 512 KiB; the model scales it down.  Only
\* comparisons with it and sums up to it matter to lib.rs.
BIOS_SIZE == 2
\* Largest number of entries the system directory yields.
MaxEntries == 2
\* Largest number of render_frame calls in a session.
MaxFrames == 2

(***************************************************************************)
(* Option values (Rust's Option<T>)                                        *)
(***************************************************************************)
None == [some |-> FALSE]
Some(x) == [some |-> TRUE, val |-> x]

(***************************************************************************)
(* Inputs: what the environment can hand to the code                       *)
(***************************************************************************)
\* rustation::Region, as far as lib.rs compares it (it has a third value,
\* Europe, that behaves like these two).
Regions == {"Japan", "NorthAmerica"}

\* Contents a file of the system directory can have: an unknown content and
\* the dumps of the Validator's table.
Images == {"junk", "jp_good", "jp_good2", "jp_bad", "na_good", "na_bad"}

\* One result of file.read(&mut data[nread..]).
ReadErr == [ok |-> FALSE, n |-> 0]
ReadOk(n) == [ok |-> TRUE, n |-> n]

\* The read results a candidate's read loop can consume with `rem` bytes
\* still missing: an error, Ok(0), or Ok(n) with 1 <= n <= rem and then the
\* results for the rest.
RECURSIVE ReadScripts(_)
ReadScripts(rem) ==
    IF rem = 0 THEN {<<>>}
    ELSE {<<ReadErr>>, <<ReadOk(0)>>}
         \cup UNION {{<<ReadOk(n)>> \o s : s \in ReadScripts(rem - n)} : n \in 1..rem}

FullRead == <<ReadOk(BIOS_SIZE)>>

\* The script delivers BIOS_SIZE bytes: no error and no Ok(0) in it.
Complete(rs) == \A k \in 1..Len(rs) : rs[k].ok /\ rs[k].n > 0

\* A directory entry as find_bios sees it, field by field in the order the
\* code asks.  A field the code cannot come to ask for takes a value that
\* would make the entry acceptable, so that skipping it is what rejects it.
MkEntry(entry_ok, md_ok, is_file, len, open_ok, reads, image) ==
    [entry_ok |-> entry_ok, md_ok |-> md_ok, is_file |-> is_file, len |-> len,
     open_ok |-> open_ok, reads |-> reads, image |-> image]

Entries ==
    \* the iterator yields Err
    {MkEntry(FALSE, TRUE, TRUE, BIOS_SIZE, TRUE, FullRead, "jp_good")}
    \* entry.metadata() fails
    \cup {MkEntry(TRUE, FALSE, TRUE, BIOS_SIZE, TRUE, FullRead, "jp_good")}
    \* not a regular file (even with the right length)
    \cup {MkEntry(TRUE, TRUE, FALSE, BIOS_SIZE, TRUE, FullRead, img) :
            img \in {"jp_good", "na_good"}}
    \* a regular file of the wrong length, whatever it holds
    \cup {MkEntry(TRUE, TRUE, TRUE, len, TRUE, FullRead, img) :
            len \in {BIOS_SIZE - 1, BIOS_SIZE + 1}, img \in {"jp_good", "na_good"}}
    \* a regular file of the right length that cannot be opened
    \cup {MkEntry(TRUE, TRUE, TRUE, BIOS_SIZE, FALSE, FullRead, "jp_good")}
    \* a regular file of the right length whose reads stop short
    \cup {MkEntry(TRUE, TRUE, TRUE, BIOS_SIZE, TRUE, rs, "jp_good") :
            rs \in {x \in ReadScripts(BIOS_SIZE) : ~Complete(x)}}
    \* a regular file of the right length read in full: every chunking,
    \* every content
    \cup {MkEntry(TRUE, TRUE, TRUE, BIOS_SIZE, TRUE, rs, img) :
            rs \in {x \in ReadScripts(BIOS_SIZE) : Complete(x)}, img \in Images}

\* The listings of exactly n entries.
Directories(n) == [1..n -> Entries]

SystemDirectories == {None, Some("system")}

\* Disc::from_path: an error, or a disc with its region.
Discs == {None} \cup {Some(r) : r \in Regions}

\* retrogl.xres(), retrogl.yres(): the output resolution.
Resolutions == {<<1024, 512>>, <<640, 480>>}

(***************************************************************************)
(* State                                                                   *)
(***************************************************************************)
VARIABLES
    session,            \* "Uninitialized", "Ready" (load_game returned a Context), "Failed"
    retrogl_state,      \* Context.retrogl's GL state: "None" or "Some"
    gl_sets,            \* sets of GL resources the backend holds
    resolution,         \* Context.retrogl's <<xres, yres>>
    \* what the last load_game call was given
    disc,               \* Disc::from_path's result
    system_directory,   \* libretro::get_system_directory()'s result
    read_dir_ok,        \* whether the file system can list a directory
    dir,                \* the entries a listing yields, in order
    \* what the last load_game call did
    find_called,        \* find_bios was called
    read_dir_called,    \* std::fs::read_dir was called
    scan_log,           \* one record per entry taken from the iterator
    bios,               \* find_bios's result
    retrogl_new_called, \* retrogl::RetroGl::new was called
    retrogl_new,        \* what RetroGl::new answered (None: an error, or not called)
    \* what the callbacks of the session did
    render_calls,       \* render_frame calls
    engine_renders,     \* calls of the engine's render step (GlState::render_frame)
    engine_errors,      \* engine render steps that returned Err
    no_state_errors,    \* "Frame requested while we have no RetroGL state!"
    frames_done,        \* libretro::gl_frame_done calls
    last_frame,         \* <<xres, yres>> of the last gl_frame_done
    last_render,        \* what the last render_frame call did
    last_gl,            \* the session's last GL context callback: "none", "reset", "destroy"
    av_info,            \* the last SystemAvInfo returned
    hist                \* the last three callbacks of the session, newest last

loadVars == <<disc, system_directory, read_dir_ok, dir, find_called,
              read_dir_called, scan_log, bios, retrogl_new_called, retrogl_new>>
frameVars == <<render_calls, engine_renders, engine_errors, no_state_errors,
               frames_done, last_frame, last_render>>
vars == <<session, retrogl_state, gl_sets, resolution, loadVars, frameVars,
          av_info, last_gl, hist>>

(***************************************************************************)
(* BIOS discovery: try_bios, find_bios                                     *)
(***************************************************************************)
\* rustation::bios::Bios::new(data): the metadata of a recognised dump, from
\* a fixed table of known dumps; None for anything else.  `data` is the
\* buffer try_bios filled: the file's content and how much of it was read.
BiosNew(data) ==
    IF data.nread # BIOS_SIZE THEN None
    ELSE CASE data.image = "jp_good" ->
                Some([image |-> data.image, region |-> "Japan", known_bad |-> FALSE])
           [] data.image = "jp_good2" ->
                Some([image |-> data.image, region |-> "Japan", known_bad |-> FALSE])
           [] data.image = "jp_bad" ->
                Some([image |-> data.image, region |-> "Japan", known_bad |-> TRUE])
           [] data.image = "na_good" ->
                Some([image |-> data.image, region |-> "NorthAmerica", known_bad |-> FALSE])
           [] data.image = "na_bad" ->
                Some([image |-> data.image, region |-> "NorthAmerica", known_bad |-> TRUE])
           [] OTHER -> None

\* The read loop as it would be if Ok(0) ended it like a full buffer.
RECURSIVE read_loop_zero_ends_loop(_, _, _)
read_loop_zero_ends_loop(reads, calls, nread) ==
    IF nread < BIOS_SIZE
    THEN LET r == IF calls + 1 <= Len(reads) THEN reads[calls + 1] ELSE ReadOk(0)
         IN  IF r.ok /\ r.n = 0
             THEN [full |-> TRUE, calls |-> calls + 1, nread |-> nread]
             ELSE IF r.ok
             THEN read_loop_zero_ends_loop(reads, calls + 1, nread + r.n)
             ELSE [full |-> FALSE, calls |-> calls + 1, nread |-> nread]
    ELSE [full |-> TRUE, calls |-> calls, nread |-> nread]

\* The read loop as it would be if a read's count replaced nread instead of
\* adding to it.
RECURSIVE read_loop_overwrites_count(_, _, _)
read_loop_overwrites_count(reads, calls, nread) ==
    IF nread < BIOS_SIZE
    THEN LET r == IF calls + 1 <= Len(reads) THEN reads[calls + 1] ELSE ReadOk(0)
         IN  IF r.ok /\ r.n = 0
             THEN [full |-> FALSE, calls |-> calls + 1, nread |-> nread]
             ELSE IF r.ok
             THEN read_loop_overwrites_count(reads, calls + 1, r.n)
             ELSE [full |-> FALSE, calls |-> calls + 1, nread |-> nread]
    ELSE [full |-> TRUE, calls |-> calls, nread |-> nread]

\* try_bios's read loop, `calls` reads done and `nread` bytes in the buffer.
\* A read past the end of the script finds the end of the file: Ok(0).
RECURSIVE read_loop(_, _, _)
read_loop(reads, calls, nread) ==
    IF nread < BIOS_SIZE
    THEN LET r == IF calls + 1 <= Len(reads) THEN reads[calls + 1] ELSE ReadOk(0)
         IN  IF r.ok /\ r.n = 0
             THEN [full |-> FALSE, calls |-> calls + 1, nread |-> nread]
             ELSE IF r.ok
             THEN read_loop(reads, calls + 1, nread + r.n)
             ELSE [full |-> FALSE, calls |-> calls + 1, nread |-> nread]
    ELSE [full |-> TRUE, calls |-> calls, nread |-> nread]

\* The match as it would be without the known_bad test.
bios_match_keeps_known_bad(region, b) ==
    IF b.some
    THEN IF b.val.region # region THEN None
         ELSE b
    ELSE None

\* The match as it would be without the region test.
bios_match_keeps_any_region(region, b) ==
    IF b.some
    THEN IF b.val.known_bad THEN None
         ELSE b
    ELSE None

\* try_bios's match on Bios::new's result: the dump, unless it is unknown,
\* known bad or of another region.
bios_match(region, b) ==
    IF b.some
    THEN IF b.val.known_bad THEN None
         ELSE IF b.val.region # region THEN None
         ELSE b
    ELSE None

\* try_bios(region, path), with what it did to the file: `opened` (File::open
\* was called), `calls` (file.read calls), `nread`, `validated` (Bios::new
\* was called).
try_bios(region, e) ==
    IF ~e.open_ok
    THEN [bios |-> None, opened |-> TRUE, calls |-> 0, nread |-> 0, validated |-> FALSE]
    ELSE LET rd == read_loop(e.reads, 0, 0)
         IN  IF ~rd.full
             THEN [bios |-> None, opened |-> TRUE, calls |-> rd.calls,
                   nread |-> rd.nread, validated |-> FALSE]
             ELSE [bios |-> bios_match(region,
                                       BiosNew([image |-> e.image, nread |-> rd.nread])),
                   opened |-> TRUE, calls |-> rd.calls, nread |-> rd.nread,
                   validated |-> TRUE]

\* What find_bios's loop did to one entry: `metadata` (entry.metadata() was
\* called) and what try_bios did to the file.
Did(metadata, t) ==
    [metadata |-> metadata, opened |-> t.opened, calls |-> t.calls,
     nread |-> t.nread, validated |-> t.validated]

NotTried == [bios |-> None, opened |-> FALSE, calls |-> 0, nread |-> 0,
             validated |-> FALSE]

\* The loop body as it would be without the size test.
find_bios_entry_any_size(region, e) ==
    IF e.entry_ok
    THEN IF e.md_ok
         THEN IF ~e.is_file THEN [bios |-> None, did |-> Did(TRUE, NotTried)]
              ELSE LET t == try_bios(region, e)
                   IN  [bios |-> t.bios, did |-> Did(TRUE, t)]
         ELSE [bios |-> None, did |-> Did(TRUE, NotTried)]
    ELSE [bios |-> None, did |-> Did(FALSE, NotTried)]

\* The body of find_bios's loop for one entry: its bios (None to go on) and
\* what was done to the entry.
find_bios_entry(region, e) ==
    IF e.entry_ok
    THEN IF e.md_ok
         THEN IF ~e.is_file THEN [bios |-> None, did |-> Did(TRUE, NotTried)]
              ELSE IF e.len # BIOS_SIZE THEN [bios |-> None, did |-> Did(TRUE, NotTried)]
              ELSE LET t == try_bios(region, e)
                   IN  [bios |-> t.bios, did |-> Did(TRUE, t)]
         ELSE [bios |-> None, did |-> Did(TRUE, NotTried)]
    ELSE [bios |-> None, did |-> Did(FALSE, NotTried)]

\* The loop as it would be if it kept the last match instead of returning
\* the first.
RECURSIVE find_bios_scan_last_match(_, _, _, _)
find_bios_scan_last_match(region, d, i, log) ==
    IF i > Len(d) THEN [bios |-> None, log |-> log]
    ELSE LET r == find_bios_entry(region, d[i])
             rest == find_bios_scan_last_match(region, d, i + 1, Append(log, r.did))
         IN  IF rest.bios.some THEN rest
             ELSE [bios |-> r.bios, log |-> rest.log]

\* The loop as it would be if an error of the directory iterator ended it.
RECURSIVE find_bios_scan_stops_on_error(_, _, _, _)
find_bios_scan_stops_on_error(region, d, i, log) ==
    IF i > Len(d) THEN [bios |-> None, log |-> log]
    ELSE LET r == find_bios_entry(region, d[i])
         IN  IF r.bios.some THEN [bios |-> r.bios, log |-> Append(log, r.did)]
             ELSE IF ~d[i].entry_ok THEN [bios |-> None, log |-> Append(log, r.did)]
             ELSE find_bios_scan_stops_on_error(region, d, i + 1, Append(log, r.did))

\* The loop as it would be if it returned whatever try_bios gave, None
\* included.
RECURSIVE find_bios_scan_returns_first_try(_, _, _, _)
find_bios_scan_returns_first_try(region, d, i, log) ==
    IF i > Len(d) THEN [bios |-> None, log |-> log]
    ELSE LET r == find_bios_entry(region, d[i])
         IN  IF r.did.opened THEN [bios |-> r.bios, log |-> Append(log, r.did)]
             ELSE find_bios_scan_returns_first_try(region, d, i + 1, Append(log, r.did))

\* find_bios's loop from entry i on, `log` holding what was done to the
\* entries before it.
RECURSIVE find_bios_scan(_, _, _, _)
find_bios_scan(region, d, i, log) ==
    IF i > Len(d) THEN [bios |-> None, log |-> log]
    ELSE LET r == find_bios_entry(region, d[i])
         IN  IF r.bios.some THEN [bios |-> r.bios, log |-> Append(log, r.did)]
             ELSE find_bios_scan(region, d, i + 1, Append(log, r.did))

\* find_bios as it would be if it searched the current directory when the
\* frontend names none.
find_bios_falls_back(region, sd, rd_ok, d) ==
    IF ~rd_ok
    THEN [bios |-> None, read_dir_called |-> TRUE, log |-> <<>>]
    ELSE LET r == find_bios_scan(region, d, 1, <<>>)
         IN  [bios |-> r.bios, read_dir_called |-> TRUE, log |-> r.log]

\* find_bios(region), given what get_system_directory and read_dir answer.
find_bios(region, sd, rd_ok, d) ==
    IF ~sd.some
    THEN [bios |-> None, read_dir_called |-> FALSE, log |-> <<>>]
    ELSE IF ~rd_ok
    THEN [bios |-> None, read_dir_called |-> TRUE, log |-> <<>>]
    ELSE LET r == find_bios_scan(region, d, 1, <<>>)
         IN  [bios |-> r.bios, read_dir_called |-> TRUE, log |-> r.log]

(***************************************************************************)
(* The render backend (module retrogl, whose source is not in lib.rs)      *)
(***************************************************************************)
\* What RetroGl::new() can answer: an error, or a backend with its output
\* resolution.
RetroGlResults == {None} \cup {Some(res) : res \in Resolutions}
\* RetroGl::new(): an error, or a backend with no GL state yet.
RetroGl_new(gl) ==
    IF gl.some THEN Some([state |-> "None", resolution |-> gl.val]) ELSE None
\* RetroGl::context_reset(): the GL state is (re)built.
RetroGl_context_reset(st) == "Some"
\* RetroGl::context_destroy(): the GL state is dropped.
RetroGl_context_destroy(st) == "None"
\* The sets of GL resources held after context_reset: a state already there
\* is released as the new one takes its place.
RetroGl_sets_after_reset(st, n) == IF st = "Some" THEN (n - 1) + 1 ELSE n + 1
\* The sets of GL resources held after context_destroy.
RetroGl_sets_after_destroy(st, n) == IF st = "Some" THEN n - 1 ELSE n

(***************************************************************************)
(* Context::new and load_game                                              *)
(***************************************************************************)
NoFind == [bios |-> None, read_dir_called |-> FALSE, log |-> <<>>]

\* Context::new as it would be if it went on to RetroGl::new without a bios.
Context_new_ignores_missing_bios(dsc, sd, rd_ok, d, gl) ==
    IF ~dsc.some
    THEN [ctx |-> None, find_called |-> FALSE, find |-> NoFind,
          retrogl_new_called |-> FALSE]
    ELSE LET f == find_bios(dsc.val, sd, rd_ok, d)
         IN  [ctx |-> RetroGl_new(gl), find_called |-> TRUE, find |-> f,
              retrogl_new_called |-> TRUE]

\* Context::new(disc): the context's retrogl state on success, and which
\* steps ran.
Context_new(dsc, sd, rd_ok, d, gl) ==
    IF ~dsc.some
    THEN [ctx |-> None, find_called |-> FALSE, find |-> NoFind,
          retrogl_new_called |-> FALSE]
    ELSE LET f == find_bios(dsc.val, sd, rd_ok, d)
         IN  IF ~f.bios.some
             THEN [ctx |-> None, find_called |-> TRUE, find |-> f,
                   retrogl_new_called |-> FALSE]
             ELSE [ctx |-> RetroGl_new(gl), find_called |-> TRUE, find |-> f,
                   retrogl_new_called |-> TRUE]

\* No render_frame call yet.
NoRender == [engine |-> "none", error |-> "none", frame_done |-> FALSE]

Init ==
    /\ session = "Uninitialized"
    /\ retrogl_state = "None"
    /\ gl_sets = 0
    /\ resolution = <<0, 0>>
    /\ disc = None
    /\ system_directory = None
    /\ read_dir_ok = FALSE
    /\ dir = <<>>
    /\ find_called = FALSE
    /\ read_dir_called = FALSE
    /\ scan_log = <<>>
    /\ bios = None
    /\ retrogl_new_called = FALSE
    /\ retrogl_new = None
    /\ render_calls = 0
    /\ engine_renders = 0
    /\ engine_errors = 0
    /\ no_state_errors = 0
    /\ frames_done = 0
    /\ last_frame = None
    /\ last_render = NoRender
    /\ last_gl = "none"
    /\ av_info = None
    /\ hist = <<>>

\* load_game(disc) on a core with no game loaded, the directory listing
\* of at most `max` entries.  A failed load is reported to the frontend, which does
\* not retry.  An input the call cannot come to ask for takes one value, and
\* the listing of a directory the frontend did not name has at most one
\* entry.
load_game(max) ==
    /\ session = "Uninitialized"
    /\ \E dsc \in Discs :
       \E sd \in (IF dsc.some THEN SystemDirectories ELSE {None}) :
       \E rd_ok \in (IF dsc.some THEN BOOLEAN ELSE {FALSE}) :
       \E n \in (IF ~rd_ok THEN {0}
                 ELSE IF sd.some THEN 0..max
                 ELSE {k \in 0..max : k <= 1}) :
       \E d \in Directories(n) :
       \E gl \in RetroGlResults :
       \E c \in {Context_new(dsc, sd, rd_ok, d, gl)} :
              /\ gl.some => c.retrogl_new_called
              /\ disc' = dsc
              /\ system_directory' = sd
              /\ read_dir_ok' = rd_ok
              /\ dir' = d
              /\ find_called' = c.find_called
              /\ read_dir_called' = c.find.read_dir_called
              /\ scan_log' = c.find.log
              /\ bios' = c.find.bios
              /\ retrogl_new_called' = c.retrogl_new_called
              /\ retrogl_new' = gl
              /\ session' = IF c.ctx.some THEN "Ready" ELSE "Failed"
              /\ retrogl_state' = IF c.ctx.some THEN c.ctx.val.state ELSE "None"
              /\ resolution' = IF c.ctx.some THEN c.ctx.val.resolution ELSE <<0, 0>>
    /\ UNCHANGED <<gl_sets, frameVars, av_info, last_gl, hist>>

(***************************************************************************)
(* The callbacks of a loaded game (impl libretro::Context for Context)     *)
(***************************************************************************)
Last3(h) == IF Len(h) <= 3 THEN h ELSE SubSeq(h, Len(h) - 2, Len(h))

\* render_frame as it would be if an engine error returned before
\* gl_frame_done.
render_frame_returns_on_error ==
    /\ session = "Ready"
    /\ render_calls < MaxFrames
    /\ render_calls' = render_calls + 1
    /\ hist' = Last3(Append(hist, "render_frame"))
    /\ \E engine_ok \in BOOLEAN :
          IF retrogl_state = "Some"
          THEN /\ engine_renders' = engine_renders + 1
               /\ engine_errors' = engine_errors + (IF engine_ok THEN 0 ELSE 1)
               /\ frames_done' = frames_done + (IF engine_ok THEN 1 ELSE 0)
               /\ last_frame' = IF engine_ok THEN Some(resolution) ELSE last_frame
               /\ last_render' = [engine |-> IF engine_ok THEN "ok" ELSE "err",
                                  error |-> IF engine_ok THEN "none" ELSE "render",
                                  frame_done |-> engine_ok]
               /\ UNCHANGED no_state_errors
          ELSE /\ no_state_errors' = no_state_errors + 1
               /\ last_render' = [engine |-> "none", error |-> "no_state",
                                  frame_done |-> FALSE]
               /\ UNCHANGED <<engine_renders, engine_errors, frames_done, last_frame>>
    /\ UNCHANGED <<session, retrogl_state, gl_sets, resolution, loadVars, av_info,
                   last_gl>>

\* render_frame as it would be if the branch without a GL state did not
\* return.
render_frame_falls_through ==
    /\ session = "Ready"
    /\ render_calls < MaxFrames
    /\ render_calls' = render_calls + 1
    /\ hist' = Last3(Append(hist, "render_frame"))
    /\ \E engine_ok \in BOOLEAN :
          IF retrogl_state = "Some"
          THEN /\ engine_renders' = engine_renders + 1
               /\ engine_errors' = engine_errors + (IF engine_ok THEN 0 ELSE 1)
               /\ frames_done' = frames_done + 1
               /\ last_frame' = Some(resolution)
               /\ last_render' = [engine |-> IF engine_ok THEN "ok" ELSE "err",
                                  error |-> IF engine_ok THEN "none" ELSE "render",
                                  frame_done |-> TRUE]
               /\ UNCHANGED no_state_errors
          ELSE /\ no_state_errors' = no_state_errors + 1
               /\ frames_done' = frames_done + 1
               /\ last_frame' = Some(resolution)
               /\ last_render' = [engine |-> "none", error |-> "no_state",
                                  frame_done |-> TRUE]
               /\ UNCHANGED <<engine_renders, engine_errors>>
    /\ UNCHANGED <<session, retrogl_state, gl_sets, resolution, loadVars, av_info,
                   last_gl>>

\* render_frame as it would be if a call without a GL state ended the
\* session.
render_frame_ends_session ==
    /\ session = "Ready"
    /\ render_calls < MaxFrames
    /\ render_calls' = render_calls + 1
    /\ hist' = Last3(Append(hist, "render_frame"))
    /\ \E engine_ok \in BOOLEAN :
          IF retrogl_state = "Some"
          THEN /\ engine_renders' = engine_renders + 1
               /\ engine_errors' = engine_errors + (IF engine_ok THEN 0 ELSE 1)
               /\ frames_done' = frames_done + 1
               /\ last_frame' = Some(resolution)
               /\ last_render' = [engine |-> IF engine_ok THEN "ok" ELSE "err",
                                  error |-> IF engine_ok THEN "none" ELSE "render",
                                  frame_done |-> TRUE]
               /\ UNCHANGED <<no_state_errors, session>>
          ELSE /\ no_state_errors' = no_state_errors + 1
               /\ last_render' = [engine |-> "none", error |-> "no_state",
                                  frame_done |-> FALSE]
               /\ session' = "Failed"
               /\ UNCHANGED <<engine_renders, engine_errors, frames_done, last_frame>>
    /\ UNCHANGED <<retrogl_state, gl_sets, resolution, loadVars, av_info, last_gl>>

\* render_frame: with a GL state, the engine's render step (an error is
\* logged and nothing more) and then gl_frame_done; without one, an error
\* and an early return.
render_frame ==
    /\ session = "Ready"
    /\ render_calls < MaxFrames
    /\ render_calls' = render_calls + 1
    /\ hist' = Last3(Append(hist, "render_frame"))
    /\ \E engine_ok \in BOOLEAN :
          IF retrogl_state = "Some"
          THEN /\ engine_renders' = engine_renders + 1
               /\ engine_errors' = engine_errors + (IF engine_ok THEN 0 ELSE 1)
               /\ frames_done' = frames_done + 1
               /\ last_frame' = Some(resolution)
               /\ last_render' = [engine |-> IF engine_ok THEN "ok" ELSE "err",
                                  error |-> IF engine_ok THEN "none" ELSE "render",
                                  frame_done |-> TRUE]
               /\ UNCHANGED no_state_errors
          ELSE /\ no_state_errors' = no_state_errors + 1
               /\ last_render' = [engine |-> "none", error |-> "no_state",
                                  frame_done |-> FALSE]
               /\ UNCHANGED <<engine_renders, engine_errors, frames_done, last_frame>>
    /\ UNCHANGED <<session, retrogl_state, gl_sets, resolution, loadVars, av_info,
                   last_gl>>

\* get_system_av_info as it would be if the base geometry were the maximum
\* one.
get_system_av_info_reports_max ==
    /\ session = "Ready"
    /\ av_info' = Some([base_width |-> 640, base_height |-> 576,
                        max_width |-> 640, max_height |-> 576, aspect_ratio |-> -1,
                        fps |-> 60, sample_rate |-> 44100])
    /\ hist' = Last3(Append(hist, "get_system_av_info"))
    /\ UNCHANGED <<session, retrogl_state, gl_sets, resolution, loadVars, frameVars,
                   last_gl>>

\* get_system_av_info: the geometry from the backend's resolution, the
\* fixed maximum geometry, aspect ratio and timing.
get_system_av_info ==
    /\ session = "Ready"
    /\ av_info' = Some([base_width |-> resolution[1], base_height |-> resolution[2],
                        max_width |-> 640, max_height |-> 576, aspect_ratio |-> -1,
                        fps |-> 60, sample_rate |-> 44100])
    /\ hist' = Last3(Append(hist, "get_system_av_info"))
    /\ UNCHANGED <<session, retrogl_state, gl_sets, resolution, loadVars, frameVars,
                   last_gl>>

\* gl_context_reset as it would be if a reset of a live context tore it down.
gl_context_reset_toggles ==
    /\ session = "Ready"
    /\ retrogl_state' = IF retrogl_state = "Some"
                        THEN RetroGl_context_destroy(retrogl_state)
                        ELSE RetroGl_context_reset(retrogl_state)
    /\ gl_sets' = IF retrogl_state = "Some"
                  THEN RetroGl_sets_after_destroy(retrogl_state, gl_sets)
                  ELSE RetroGl_sets_after_reset(retrogl_state, gl_sets)
    /\ last_gl' = "reset"
    /\ hist' = Last3(Append(hist, "gl_context_reset"))
    /\ UNCHANGED <<session, resolution, loadVars, frameVars, av_info>>

\* gl_context_reset as it would be if it left the backend alone.
gl_context_reset_noop ==
    /\ session = "Ready"
    /\ retrogl_state' = retrogl_state
    /\ gl_sets' = gl_sets
    /\ last_gl' = "reset"
    /\ hist' = Last3(Append(hist, "gl_context_reset"))
    /\ UNCHANGED <<session, resolution, loadVars, frameVars, av_info>>

gl_context_reset ==
    /\ session = "Ready"
    /\ retrogl_state' = RetroGl_context_reset(retrogl_state)
    /\ gl_sets' = RetroGl_sets_after_reset(retrogl_state, gl_sets)
    /\ last_gl' = "reset"
    /\ hist' = Last3(Append(hist, "gl_context_reset"))
    /\ UNCHANGED <<session, resolution, loadVars, frameVars, av_info>>

gl_context_destroy ==
    /\ session = "Ready"
    /\ retrogl_state' = RetroGl_context_destroy(retrogl_state)
    /\ gl_sets' = RetroGl_sets_after_destroy(retrogl_state, gl_sets)
    /\ last_gl' = "destroy"
    /\ hist' = Last3(Append(hist, "gl_context_destroy"))
    /\ UNCHANGED <<session, resolution, loadVars, frameVars, av_info>>

(***************************************************************************)
(* Specifications                                                          *)
(***************************************************************************)
\* A session: one load from a listing of at most one entry, then callbacks.
Next ==
    \/ load_game(1)
    \/ render_frame
    \/ get_system_av_info
    \/ gl_context_reset
    \/ gl_context_destroy

Spec == Init /\ [][Next]_vars

\* A load alone, from every listing of at most MaxEntries entries.
NextLoad == load_game(MaxEntries)

SpecLoad == Init /\ [][NextLoad]_vars

(***************************************************************************)
(* Claims about the session's callbacks (checked under Spec)               *)
(***************************************************************************)
\* C1, as stated: the number of frame-completion signals equals the number
\* of render_frame calls that had a GL state and whose engine render step
\* returned no error.
C1_SignalsEqualErrorFreeRenders ==
    frames_done = engine_renders - engine_errors

\* C1, amended: the number of frame-completion signals equals the number of
\* render_frame calls made with a GL state, whether or not the engine's
\* render step returned an error; every render_frame call is one of those or
\* one rejected for the missing GL state, and the last call emitted a signal
\* exactly when it had a GL state.
C1_SignalsEqualLiveRenders ==
    /\ frames_done = engine_renders
    /\ render_calls = engine_renders + no_state_errors
    /\ last_render.frame_done = (last_render.engine # "none")

\* C1's case: a call with no GL state, then a call whose engine render step
\* failed and that still emitted its signal.
C1_Witness ==
    /\ no_state_errors = 1
    /\ engine_errors = 1
    /\ frames_done = 1
    /\ last_render = [engine |-> "err", error |-> "render", frame_done |-> TRUE]

\* The GL state is absent by the callbacks' history: no gl_context_reset
\* since the load, or a gl_context_destroy since the last gl_context_reset.
ContextAbsent == session = "Ready" /\ last_gl \in {"none", "destroy"}

\* C2: a render_frame call made while the render context is absent logs an
\* error, emits no frame-completion signal and does not call the engine's
\* render step.
C2_NoContextRenderFails ==
    [][(ContextAbsent /\ render_calls' = render_calls + 1)
        => /\ no_state_errors' = no_state_errors + 1
           /\ last_render'.error = "no_state"
           /\ frames_done' = frames_done
           /\ last_frame' = last_frame
           /\ engine_renders' = engine_renders
           /\ engine_errors' = engine_errors]_vars

\* C2's case: a render_frame call right after a gl_context_destroy, rejected
\* with no frame signalled.
C2_Witness ==
    /\ hist = <<"gl_context_destroy", "render_frame">> \/
       hist = <<"gl_context_reset", "gl_context_destroy", "render_frame">>
    /\ last_gl = "destroy"
    /\ no_state_errors >= 1
    /\ last_render = [engine |-> "none", error |-> "no_state", frame_done |-> FALSE]
    /\ frames_done = 0

Scanned ==
    /\ session # "Uninitialized"
    /\ disc.some
    /\ system_directory.some
    /\ read_dir_ok

\* The entry passes find_bios's filters: it is listed, its metadata can be
\* read, it is a regular file of BIOS_SIZE bytes.
RightSize(e) == e.entry_ok /\ e.md_ok /\ e.is_file /\ e.len = BIOS_SIZE

\* The bytes the entry's reads deliver before an error or an Ok(0).
RECURSIVE Delivered(_)
Delivered(rs) ==
    IF rs = <<>> \/ ~Head(rs).ok \/ Head(rs).n = 0 THEN 0
    ELSE Head(rs).n + Delivered(Tail(rs))

\* The entry can be opened and read in full.
FullyRead(e) == e.open_ok /\ Delivered(e.reads) = BIOS_SIZE

\* What the Validator says of the entry's whole content.
Metadata(e) == BiosNew([image |-> e.image, nread |-> BIOS_SIZE])

\* The entry is acceptable for region r.
Acceptable(e, r) ==
    /\ RightSize(e)
    /\ FullyRead(e)
    /\ Metadata(e).some
    /\ ~Metadata(e).val.known_bad
    /\ Metadata(e).val.region = r

AcceptableAt == {i \in 1..Len(dir) : Acceptable(dir[i], disc.val)}

FirstAcceptable == CHOOSE i \in AcceptableAt : \A j \in AcceptableAt : i <= j

\* The scan returned entry i's image: it stopped at i with a bios.
ReturnedAt(i) == bios.some /\ Len(scan_log) = i

\* The scan went on after entry i when there was a next entry.
WentOnAfter(i) == i < Len(dir) => Len(scan_log) > i

\* C4: find_bios returns the first acceptable entry of the listing, and
\* nothing after that entry is looked at, opened or read.
C4_FirstAcceptableWins ==
    (Scanned /\ AcceptableAt # {})
        => /\ ReturnedAt(FirstAcceptable)
           /\ bios.val.image = dir[FirstAcceptable].image
           /\ bios = Metadata(dir[FirstAcceptable])
           /\ scan_log[FirstAcceptable].validated

\* C4's case: two acceptable entries with different images; the first one is
\* returned and the second is never looked at.
C4_Witness ==
    /\ Scanned
    /\ Len(dir) = 2
    /\ AcceptableAt = {1, 2}
    /\ dir[1].image # dir[2].image
    /\ bios.some
    /\ Len(scan_log) = 1

\* The entry is not a regular file of BIOS_SIZE bytes, by its metadata.
WrongKindOrSize(e) == e.entry_ok /\ e.md_ok /\ (~e.is_file \/ e.len # BIOS_SIZE)

\* C5: an entry that is not a regular file, or whose size differs from
\* BIOS_SIZE, is never opened, never read and never handed to the Validator,
\* wherever it stands in the listing.
C5_WrongSizeNeverRead ==
    \A i \in 1..Len(scan_log) :
        WrongKindOrSize(dir[i])
            => /\ ~scan_log[i].opened
               /\ scan_log[i].calls = 0
               /\ scan_log[i].nread = 0
               /\ ~scan_log[i].validated
               /\ ~ReturnedAt(i)

\* C5's case: a regular file one byte too long that holds an acceptable
\* image was passed over, and the entry after it was opened.
C5_Witness ==
    /\ Scanned
    /\ Len(scan_log) = 2
    /\ dir[1].is_file /\ dir[1].len = BIOS_SIZE + 1
    /\ Metadata(dir[1]).some /\ Metadata(dir[1]).val.region = disc.val
    /\ ~scan_log[1].opened
    /\ scan_log[2].opened

\* The entry reaches the Validator and is a known bad dump.
KnownBad(e) ==
    RightSize(e) /\ FullyRead(e) /\ Metadata(e).some /\ Metadata(e).val.known_bad

\* C6: a known bad dump is never returned, even with the requested region,
\* and the scan goes on with the next entry.
C6_KnownBadRejected ==
    /\ bios.some => ~bios.val.known_bad
    /\ \A i \in 1..Len(scan_log) :
          KnownBad(dir[i]) => ~ReturnedAt(i) /\ WentOnAfter(i)

\* C6's case: a known bad dump of the requested region was validated and
\* passed over, and the scan went on to a second entry.
C6_Witness ==
    /\ Scanned
    /\ Len(scan_log) = 2
    /\ KnownBad(dir[1])
    /\ Metadata(dir[1]).val.region = disc.val
    /\ scan_log[1].validated

\* The entry reaches the Validator and its region is not r.
OtherRegion(e, r) ==
    RightSize(e) /\ FullyRead(e) /\ Metadata(e).some /\ Metadata(e).val.region # r

\* C7: a dump of another region is never returned, known bad or not, so a
\* returned image has the requested region.
C7_RegionMismatchRejected ==
    /\ bios.some => (disc.some /\ bios.val.region = disc.val)
    /\ disc.some =>
          \A i \in 1..Len(scan_log) :
              OtherRegion(dir[i], disc.val) => ~ReturnedAt(i) /\ WentOnAfter(i)

\* C7's case: a good dump of another region was validated and passed over,
\* and the scan went on to a second entry.
C7_Witness ==
    /\ Scanned
    /\ Len(scan_log) = 2
    /\ OtherRegion(dir[1], disc.val)
    /\ ~Metadata(dir[1]).val.known_bad
    /\ scan_log[1].validated

\* C8: with no acceptable entry find_bios looks at every entry of the
\* listing and returns None, as it does when the directory cannot be listed
\* or the frontend names none; the load then fails.
C8_NoMatchIsNone ==
    /\ (Scanned /\ AcceptableAt = {})
          => bios = None /\ Len(scan_log) = Len(dir) /\ session = "Failed"
    /\ (find_called /\ (~system_directory.some \/ ~read_dir_ok))
          => bios = None /\ scan_log = <<>> /\ session = "Failed"

\* C8's case: a listing of two entries, neither acceptable, one of them
\* validated; both were looked at and the result is None.
C8_Witness ==
    /\ Scanned
    /\ Len(dir) = 2
    /\ AcceptableAt = {}
    /\ \E i \in 1..2 : scan_log[i].validated
    /\ ~dir[1].entry_ok
    /\ bios = None

\* A read of the entry returns Ok(0) before BIOS_SIZE bytes are there.
ZeroRead(e) ==
    /\ RightSize(e)
    /\ e.open_ok
    /\ \E k \in 1..Len(e.reads) :
          /\ e.reads[k] = ReadOk(0)
          /\ \A j \in 1..(k - 1) : e.reads[j].ok /\ e.reads[j].n > 0

\* C9: a candidate one of whose reads returns Ok(0) short of BIOS_SIZE bytes
\* is never handed to the Validator and never returned, and the scan goes on
\* with the next entry.
C9_ZeroReadSkipsCandidate ==
    \A i \in 1..Len(scan_log) :
        ZeroRead(dir[i])
            => /\ scan_log[i].opened
               /\ scan_log[i].nread < BIOS_SIZE
               /\ ~scan_log[i].validated
               /\ ~ReturnedAt(i)
               /\ WentOnAfter(i)

\* C9's case: a candidate gave one byte and then Ok(0); it was dropped and
\* the scan went on to a second entry.
C9_Witness ==
    /\ Scanned
    /\ Len(scan_log) = 2
    /\ ZeroRead(dir[1])
    /\ scan_log[1].nread = 1
    /\ scan_log[1].calls = 2

\* C10: when the frontend names no system directory the load fails: no
\* directory is listed, no entry is looked at, RetroGl::new is not called and
\* there is no session.
C10_NoSystemDirectoryFails ==
    (find_called /\ ~system_directory.some)
        => /\ ~read_dir_called
           /\ scan_log = <<>>
           /\ bios = None
           /\ ~retrogl_new_called
           /\ session = "Failed"
           /\ retrogl_state = "None"

\* C10's case: no system directory, while a directory that could have been
\* listed holds an acceptable image.
C10_Witness ==
    /\ find_called
    /\ ~system_directory.some
    /\ read_dir_ok
    /\ Len(dir) = 1
    /\ Acceptable(dir[1], disc.val)
    /\ session = "Failed"

(***************************************************************************)
(* Claims about the load as a whole (checked under SpecLoad)               *)
(***************************************************************************)
\* C11: the load parses the disc, then looks for a bios, then builds the
\* render backend; a step runs only when every step before it succeeded, and
\* there is a session exactly when all three succeeded.
C11_StepsInOrderFirstFailureWins ==
    session # "Uninitialized"
        => /\ find_called = disc.some
           /\ read_dir_called => find_called
           /\ scan_log # <<>> => read_dir_called
           /\ bios.some => find_called
           /\ retrogl_new_called = bios.some
           /\ retrogl_new.some => retrogl_new_called
           /\ (session = "Ready") = (disc.some /\ bios.some /\ retrogl_new.some)
           /\ session \in {"Ready", "Failed"}
           /\ session = "Failed" => retrogl_state = "None" /\ gl_sets = 0

\* C11's case: the disc parsed and a bios was found, RetroGl::new was called
\* and failed, and there is no session.
C11_Witness ==
    /\ session = "Failed"
    /\ disc.some
    /\ bios.some
    /\ retrogl_new_called
    /\ ~retrogl_new.some

\* Entry i of the listing is the kind of failure named.
FailureAt(i) ==
    LET e == dir[i]
    IN  \/ ~e.entry_ok
        \/ ~e.md_ok
        \/ (RightSize(e) /\ ~e.open_ok)
        \/ (RightSize(e) /\ e.open_ok /\ Delivered(e.reads) < BIOS_SIZE)
        \/ (RightSize(e) /\ FullyRead(e) /\ ~Metadata(e).some)
        \/ KnownBad(e)
        \/ OtherRegion(e, disc.val)

\* C12: a failure on one entry does not end the scan: the entries after it
\* are looked at, and when a later entry is acceptable its image is returned.
C12_FailureDoesNotEndScan ==
    Scanned =>
        \A i \in 1..Len(dir) :
            (FailureAt(i) /\ \A k \in 1..(i - 1) : ~Acceptable(dir[k], disc.val))
                => /\ i <= Len(scan_log)
                   /\ ~ReturnedAt(i)
                   /\ WentOnAfter(i)
                   /\ \A j \in (i + 1)..Len(dir) :
                         (Acceptable(dir[j], disc.val)
                            /\ \A k \in (i + 1)..(j - 1) : ~Acceptable(dir[k], disc.val))
                         => ReturnedAt(j) /\ bios = Metadata(dir[j])

\* C12's case: a file of the right size with an unknown content, then an
\* acceptable one, whose image is returned.
C12_Witness ==
    /\ Scanned
    /\ Len(dir) = 2
    /\ RightSize(dir[1]) /\ FullyRead(dir[1]) /\ ~Metadata(dir[1]).some
    /\ scan_log[1].validated
    /\ Acceptable(dir[2], disc.val)
    /\ bios = Metadata(dir[2])
    /\ session = "Ready"

(***************************************************************************)
(* More claims about the session's callbacks (checked under Spec)          *)
(***************************************************************************)
\* The step is the callback `name` of the session.
Callback(name) ==
    /\ session = "Ready"
    /\ hist' = Last3(Append(hist, name))

C14_SessionOutlivesContext ==
    [][session = "Ready"
        => /\ session' = "Ready"
           /\ UNCHANGED <<loadVars, resolution>>
           /\ retrogl_state' # retrogl_state
                => \/ Callback("gl_context_reset") /\ retrogl_state' = "Some"
                   \/ Callback("gl_context_destroy") /\ retrogl_state' = "None"]_vars

\* C14's case: the context was destroyed, a render_frame call failed, and
\* the session still answers get_system_av_info.
C14_Witness ==
    /\ session = "Ready"
    /\ hist = <<"gl_context_destroy", "render_frame", "get_system_av_info">>
    /\ last_render.error = "no_state"
    /\ av_info.some
    /\ retrogl_state = "None"

\* C15: get_system_av_info, with or without a GL state, returns 60 frames
\* per second, a sample rate of 44100, a negative aspect ratio and the
\* backend's current resolution as base width and height; it changes nothing
\* of the session and signals no frame.
C15_AvInfoFixedTimingCurrentGeometry ==
    [][Callback("get_system_av_info")
        => /\ av_info'.some
           /\ av_info'.val.fps = 60
           /\ av_info'.val.sample_rate = 44100
           /\ av_info'.val.aspect_ratio < 0
           /\ av_info'.val.base_width = resolution[1]
           /\ av_info'.val.base_height = resolution[2]
           /\ UNCHANGED <<session, retrogl_state, gl_sets, resolution, loadVars,
                          frameVars, last_gl>>]_vars

\* C15's case: one query before the first gl_context_reset and one after
\* it, on a backend of 1024 by 512.
C15_Witness ==
    /\ hist = <<"get_system_av_info", "gl_context_reset", "get_system_av_info">>
    /\ retrogl_state = "Some"
    /\ resolution = <<1024, 512>>
    /\ av_info.some
    /\ av_info.val.base_width = 1024
    /\ frames_done = 0

(***************************************************************************)
(* More claims about BIOS discovery (checked under SpecLoad)               *)
(***************************************************************************)
\* C16: for every sequence of read results the read loop ends with at most
\* BIOS_SIZE bytes counted, the bytes the reads delivered; every read that
\* did not end the loop added at least one byte, so there are at most
\* BIOS_SIZE reads; the Validator is called, and an image returned, only with
\* exactly BIOS_SIZE bytes.
C16_ReadLoopBounded ==
    \A i \in 1..Len(scan_log) :
        LET l == scan_log[i]
        IN  /\ l.nread \in 0..BIOS_SIZE
            /\ l.calls \in 0..BIOS_SIZE
            /\ l.calls <= l.nread + (IF l.nread = BIOS_SIZE THEN 0 ELSE 1)
            /\ l.calls > 0 => (l.opened /\ dir[i].open_ok)
            /\ (l.opened /\ dir[i].open_ok) => l.nread = Delivered(dir[i].reads)
            /\ l.validated => l.nread = BIOS_SIZE
            /\ ReturnedAt(i) => l.validated /\ l.nread = BIOS_SIZE

\* C16's case: a candidate whose second read failed after one byte, then a
\* candidate read one byte at a time up to BIOS_SIZE and validated.
C16_Witness ==
    /\ Len(scan_log) = 2
    /\ scan_log[1].calls = 2
    /\ scan_log[1].nread = 1
    /\ ~dir[1].reads[2].ok
    /\ ~scan_log[1].validated
    /\ scan_log[2].validated
    /\ scan_log[2].calls = BIOS_SIZE
    /\ scan_log[2].nread = BIOS_SIZE

(***************************************************************************)
(* The session and its bios (checked under Spec)                           *)
(***************************************************************************)
\* C17: whenever there is a session, the load that made it found a bios: a
\* dump of the listing that the Validator recognised, that is not known bad
\* and whose region is the disc's.
C17_SessionHasAcceptedBios ==
    session = "Ready"
        => /\ disc.some
           /\ bios.some
           /\ ~bios.val.known_bad
           /\ bios.val.region = disc.val
           /\ scan_log # <<>>
           /\ scan_log[Len(scan_log)].validated
           /\ Acceptable(dir[Len(scan_log)], disc.val)
           /\ bios = Metadata(dir[Len(scan_log)])

\* C17's case: a session loaded from a North American disc with the North
\* American dump, still there after a frame was rendered.
C17_Witness ==
    /\ session = "Ready"
    /\ disc = Some("NorthAmerica")
    /\ bios.some
    /\ bios.val.image = "na_good"
    /\ frames_done >= 1

====
